---- MODULE Spec2Model ----
(***************************************************************************)
(* D2Tree (src/mod.ts): a mutable point quadtree with a shared reverse     *)
(* index.  The tree is an arena of node objects addressed by identity;     *)
(* add / remove / update are the actions, the queries are operators over   *)
(* the current tree.                                                       *)
(*                                                                         *)
(* Coordinates.  The source computes in doubles.  A number of the model is *)
(* an integer that counts representable values: consecutive integers are   *)
(* neighbouring doubles, and a split centre, sum / items.length, is        *)
(* rounded to the nearest of them, ties to even (Mean).  Under Spec item    *)
(* and query coordinates are small integers c of the source, stored as     *)
(* c * Unit, where Unit is the least common multiple of every possible     *)
(* leaf size: every centre is then exact, and every comparison the source  *)
(* makes (always an item or query coordinate against a centre or a bound)  *)
(* has the outcome it has in double arithmetic on small integers.  Under   *)
(* SpecClose the item coordinates are neighbouring doubles, and the        *)
(* rounding of the centre shows.                                           *)
(*                                                                         *)
(* Call stack.  add and split call each other; the engine's call stack is  *)
(* finite, and a call that finds it exhausted throws a RangeError that     *)
(* unwinds every pending call.  The tree record that the operators pass    *)
(* along carries the number of add frames on the stack (depth), whether    *)
(* the RangeError is propagating (threw), and the engine's frame sizes     *)
(* (probe).                                                                *)
(***************************************************************************)
EXTENDS Integers, Sequences, FiniteSets, TLC

\* ---------------------------------------------------------------- bounds
\* The caller's items, 1..NumItems.
NumItems == 3
\* Item, box and circle coordinates lie on the grid -MaxCoord..MaxCoord.
MaxCoord == 1
\* The constructor's density ranges over MinDensity..MaxDensity.
MaxDensity == 3
\* Nearest-neighbour query points lie on the grid -MaxQuery..MaxQuery.
MaxQuery == 2
\* Circle radii range over 0..MaxRadius.
MaxRadius == 2

\* Requested densities start RejectSpan below MinDensity.
RejectSpan == 3
\* The call stack holds MaxStack nested add calls.
MaxStack == 4
\* Under SpecClose item x coordinates are the neighbouring doubles
\* 0..MaxClose, counted from an even one.
MaxClose == 2
\* SpecClose follows a tree while it is at most MaxHeight levels deep.
MaxHeight == 2

\* ------------------------------------------------------ program constants
\* density must be 2 or more (constructor).
MinDensity == 2
\* density = 10 (constructor default).
DefaultDensity == 10
\* thrash = 1.25 (constructor default), as the fraction ThrashNum / ThrashDen.
ThrashNum == 5
ThrashDen == 4
\* The thrash values the constructor is given: the default, and one below 1
\* (collapse without hysteresis, merging more than one remaining item).
Thrashes == {<<ThrashNum, ThrashDen>>, <<1, 2>>}
\* Infinity, larger than every coordinate the model compares it with.
Infinity == 1000000

RECURSIVE Lcm(_)
Gcd(a, b) == CHOOSE g \in 1..a : a % g = 0 /\ b % g = 0
                 /\ \A h \in 1..a : (a % h = 0 /\ b % h = 0) => h <= g
Lcm(n) == IF n <= 1 THEN 1 ELSE LET l == Lcm(n - 1) IN (l * n) \div Gcd(n, l)
Unit == Lcm(NumItems)

Items == 1..NumItems
Coords == {c * Unit : c \in (0 - MaxCoord)..MaxCoord}
\* The positions items take: the grid's left column and one point to its right.
\* Three items on these positions build trees three levels deep.
Points == {p \in Coords \X Coords :
              p[1] = (0 - MaxCoord) * Unit \/ (p[1] = MaxCoord * Unit /\ p[2] = 0)}
\* Positions one representable value apart, on one horizontal line.
ClosePoints == {<<c, 0>> : c \in 0..MaxClose}
\* Frames the position test of a full leaf needs beyond those of a nested add:
\* it depends on the engine which of the two exhausts the stack first.
ProbeFrames == {0, 1}
QueryCoords == {c * Unit : c \in (0 - MaxQuery)..MaxQuery}
Radii == {r * Unit : r \in 0..MaxRadius}

\* The root object, and the absent reference (undefined).
Root == 1
NoNode == 0

VARIABLES
    nodes,          \* node identity -> the D2Tree object's fields
    itemToTreeMap,  \* the shared reverse index: item -> node identity
    pos,            \* getItemPosition of every item the caller has handed in
    density,        \* constructor parameter
    thrash,         \* constructor parameter, <<numerator, denominator>>
    added           \* ghost: the items added and not removed since

vars == <<nodes, itemToTreeMap, pos, density, thrash, added>>

\* ------------------------------------------------------------ constructor
NewTree(parent, min, max) ==
    [parent |-> parent, min |-> min, max |-> max, center |-> <<0, 0>>,
     items |-> <<>>, children |-> <<>>]

\* --------------------------------------------------------------- helpers
IsLeaf(ns, n) == ns[n].children = <<>>

RECURSIVE SumSeq(_)
SumSeq(s) == IF s = <<>> THEN 0 ELSE Head(s) + SumSeq(Tail(s))

\* Array.prototype.indexOf: the first index holding the item, 0 for -1.
IndexOf(s, item) ==
    IF \E i \in 1..Len(s) : s[i] = item
    THEN CHOOSE i \in 1..Len(s) : s[i] = item /\ \A j \in 1..(i - 1) : s[j] # item
    ELSE 0

\* items.splice(index, 1)
Splice(s, i) == SubSeq(s, 1, i - 1) \o SubSeq(s, i + 1, Len(s))

\* Map.prototype.set
MapSet(m, item, n) ==
    [i \in DOMAIN m \cup {item} |-> IF i = item THEN n ELSE m[i]]

\* new D2Tree(...): four objects with identities no live object has.
RECURSIVE FreshFrom(_, _, _)
FreshFrom(used, k, from) ==
    IF k = 0 THEN <<>>
    ELSE IF from \in used THEN FreshFrom(used, k, from + 1)
    ELSE <<from>> \o FreshFrom(used, k - 1, from + 1)
FreshIds(ns) == FreshFrom(DOMAIN ns, 4, 1)

\* ---------------------------------------------------------------- drill
\* Mutant of drill: a coordinate equal to the centre goes to the low side.
RECURSIVE drillTiesLow(_, _, _, _)
drillTiesLow(ns, n, x, y) ==
    IF IsLeaf(ns, n) THEN n
    ELSE IF x <= ns[n].center[1]
         THEN IF y <= ns[n].center[2] THEN drillTiesLow(ns, ns[n].children[1], x, y)
              ELSE drillTiesLow(ns, ns[n].children[2], x, y)
         ELSE IF y <= ns[n].center[2] THEN drillTiesLow(ns, ns[n].children[3], x, y)
              ELSE drillTiesLow(ns, ns[n].children[4], x, y)

RECURSIVE drill(_, _, _, _)
drill(ns, n, x, y) ==
    IF IsLeaf(ns, n) THEN n
    ELSE IF x < ns[n].center[1]
         THEN IF y < ns[n].center[2] THEN drill(ns, ns[n].children[1], x, y)
              ELSE drill(ns, ns[n].children[2], x, y)
         ELSE IF y < ns[n].center[2] THEN drill(ns, ns[n].children[3], x, y)
              ELSE drill(ns, ns[n].children[4], x, y)

\* ----------------------------------------------------------- shouldSplit
\* Mutant of shouldSplit: the threshold off by one (splits one item late).
shouldSplitLate(ns, n, gp) ==
    LET its == ns[n].items IN
    IF Len(its) <= density THEN FALSE
    ELSE \E i \in 2..Len(its) : gp[its[i]] # gp[its[1]]

\* Mutant of shouldSplit: the threshold off by one (splits one item early).
shouldSplitEarly(ns, n, gp) ==
    LET its == ns[n].items IN
    IF Len(its) < density - 1 THEN FALSE
    ELSE \E i \in 2..Len(its) : gp[its[i]] # gp[its[1]]

shouldSplit(ns, n, gp) ==
    LET its == ns[n].items IN
    IF Len(its) < density THEN FALSE
    ELSE \E i \in 2..Len(its) : gp[its[i]] # gp[its[1]]

\* ------------------------------------------------------------ add / split
\* t is the pair of stores an operation mutates: [nodes, map].
\* sum / length in doubles: the quotient rounded to the nearest representable
\* value, ties to the even one.
Mean(sum, length) ==
    LET q == sum \div length
        r == sum % length
    IN IF 2 * r < length THEN q
       ELSE IF 2 * r > length THEN q + 1
       ELSE IF q % 2 = 0 THEN q ELSE q + 1

RECURSIVE add(_, _, _, _)
RECURSIVE split(_, _, _)
RECURSIVE readd(_, _, _, _, _)

\* Mutant of add: a leaf holding density items is split whatever their
\* positions, and the item is pushed below it without a second test.
addEager(t, n, item, gp) ==
    LET cell == drill(t.nodes, n, gp[item][1], gp[item][2]) IN
    IF Len(t.nodes[cell].items) >= density
    THEN LET t2 == split(t, cell, gp)
             sub == drill(t2.nodes, cell, gp[item][1], gp[item][2])
         IN [t2 EXCEPT !.nodes[sub].items = Append(@, item),
                       !.map = MapSet(@, item, sub)]
    ELSE [t EXCEPT !.nodes[cell].items = Append(@, item),
                   !.map = MapSet(@, item, cell)]

\* A call entered while the RangeError propagates stands for the code the
\* unwinding skips.  The call needs a frame; the position test of a full leaf
\* (shouldSplit calling getItemPosition) needs t.probe frames more.
add(t, n, item, gp) ==
    IF t.threw THEN t
    ELSE IF t.depth >= MaxStack THEN [t EXCEPT !.threw = TRUE]
    ELSE
    LET here == [t EXCEPT !.depth = @ + 1]
        cell == drill(t.nodes, n, gp[item][1], gp[item][2])
        done ==
            IF /\ Len(t.nodes[cell].items) >= density
               /\ here.depth + t.probe > MaxStack
            THEN [here EXCEPT !.threw = TRUE]
            ELSE IF shouldSplit(t.nodes, cell, gp)
            THEN add(split(here, cell, gp), cell, item, gp)
            ELSE [here EXCEPT !.nodes[cell].items = Append(@, item),
                              !.map = MapSet(@, item, cell)]
    IN IF done.threw THEN done ELSE [done EXCEPT !.depth = t.depth]

\* for (i...) this.add(this.items[i]), from index i on
readd(t, n, its, i, gp) ==
    IF i > Len(its) THEN t
    ELSE readd(add(t, n, its[i], gp), n, its, i + 1, gp)

\* Mutant of split: the node's own items are not cleared.
splitKeepItems(t, n, gp) ==
    LET me == t.nodes[n]
        its == me.items
        x == Mean(SumSeq([i \in 1..Len(its) |-> gp[its[i]][1]]), Len(its))
        y == Mean(SumSeq([i \in 1..Len(its) |-> gp[its[i]][2]]), Len(its))
        ids == FreshIds(t.nodes)
        kids == <<NewTree(n, me.min, <<x, y>>),
                  NewTree(n, <<me.min[1], y>>, <<x, me.max[2]>>),
                  NewTree(n, <<x, me.min[2]>>, <<me.max[1], y>>),
                  NewTree(n, <<x, y>>, me.max)>>
        ns1 == [m \in DOMAIN t.nodes \cup {ids[k] : k \in 1..4} |->
                   IF m = n THEN [me EXCEPT !.center = <<x, y>>, !.children = ids]
                   ELSE IF m \in DOMAIN t.nodes THEN t.nodes[m]
                   ELSE kids[CHOOSE k \in 1..4 : ids[k] = m]]
    IN readd([t EXCEPT !.nodes = ns1], n, its, 1, gp)

\* Mutant of split: the second and third child are created in swapped order.
splitSwapped(t, n, gp) ==
    LET me == t.nodes[n]
        its == me.items
        x == Mean(SumSeq([i \in 1..Len(its) |-> gp[its[i]][1]]), Len(its))
        y == Mean(SumSeq([i \in 1..Len(its) |-> gp[its[i]][2]]), Len(its))
        ids == FreshIds(t.nodes)
        kids == <<NewTree(n, me.min, <<x, y>>),
                  NewTree(n, <<x, me.min[2]>>, <<me.max[1], y>>),
                  NewTree(n, <<me.min[1], y>>, <<x, me.max[2]>>),
                  NewTree(n, <<x, y>>, me.max)>>
        ns1 == [m \in DOMAIN t.nodes \cup {ids[k] : k \in 1..4} |->
                   IF m = n THEN [me EXCEPT !.center = <<x, y>>, !.children = ids]
                   ELSE IF m \in DOMAIN t.nodes THEN t.nodes[m]
                   ELSE kids[CHOOSE k \in 1..4 : ids[k] = m]]
        t2 == readd([t EXCEPT !.nodes = ns1], n, its, 1, gp)
    IN [t2 EXCEPT !.nodes[n].items = <<>>]

split(t, n, gp) ==
    LET me == t.nodes[n]
        its == me.items
        x == Mean(SumSeq([i \in 1..Len(its) |-> gp[its[i]][1]]), Len(its))
        y == Mean(SumSeq([i \in 1..Len(its) |-> gp[its[i]][2]]), Len(its))
        ids == FreshIds(t.nodes)
        kids == <<NewTree(n, me.min, <<x, y>>),
                  NewTree(n, <<me.min[1], y>>, <<x, me.max[2]>>),
                  NewTree(n, <<x, me.min[2]>>, <<me.max[1], y>>),
                  NewTree(n, <<x, y>>, me.max)>>
        ns1 == [m \in DOMAIN t.nodes \cup {ids[k] : k \in 1..4} |->
                   IF m = n THEN [me EXCEPT !.center = <<x, y>>, !.children = ids]
                   ELSE IF m \in DOMAIN t.nodes THEN t.nodes[m]
                   ELSE kids[CHOOSE k \in 1..4 : ids[k] = m]]
        t2 == readd([t EXCEPT !.nodes = ns1], n, its, 1, gp)
    IN IF t2.threw THEN t2 ELSE [t2 EXCEPT !.nodes[n].items = <<>>]

\* -------------------------------------------------------------- collapse
RECURSIVE FlatItems(_, _)
FlatItems(ns, ids) ==
    IF ids = <<>> THEN <<>> ELSE ns[Head(ids)].items \o FlatItems(ns, Tail(ids))

\* Mutant of collapse: the children's items are not taken over.
collapseOwnItems(t, n) ==
    [t EXCEPT !.nodes = [t.nodes EXCEPT ![n].children = <<>>]]

\* Mutant of collapse: the reverse index is not re-pointed to the node.
collapseNoRepoint(t, n) ==
    LET me == t.nodes[n]
        its == me.items \o FlatItems(t.nodes, me.children)
    IN [t EXCEPT !.nodes = [t.nodes EXCEPT ![n].items = its, ![n].children = <<>>]]

collapse(t, n) ==
    LET me == t.nodes[n]
        its == me.items \o FlatItems(t.nodes, me.children)
    IN [t EXCEPT
           !.nodes = [t.nodes EXCEPT ![n].items = its, ![n].children = <<>>],
           !.map = [i \in DOMAIN t.map \cup {its[k] : k \in 1..Len(its)} |->
                       IF \E k \in 1..Len(its) : its[k] = i THEN n ELSE t.map[i]]]

\* ---------------------------------------------------------------- remove
\* Mutant of shouldCollapse: thrash scales the density, not the item count.
shouldCollapseScaled(ns, p) ==
    /\ p # NoNode
    /\ ns[p].children # <<>>
    /\ \A k \in 1..4 : IsLeaf(ns, ns[p].children[k])
    /\ SumSeq([k \in 1..4 |-> Len(ns[ns[p].children[k]].items)]) * thrash[2]
           < density * thrash[1]

shouldCollapse(ns, p) ==
    /\ p # NoNode
    /\ ns[p].children # <<>>
    /\ \A k \in 1..4 : IsLeaf(ns, ns[p].children[k])
    /\ SumSeq([k \in 1..4 |-> Len(ns[ns[p].children[k]].items)]) * thrash[1]
           < density * thrash[2]

\* Mutant of remove: after a collapse the test is repeated on the next parent.
RECURSIVE collapseUp(_, _)
collapseUp(t, n) ==
    LET t1 == collapse(t, n)
        g == t1.nodes[n].parent
    IN IF shouldCollapse(t1.nodes, g) THEN collapseUp(t1, g) ELSE t1
removeCascade(t, item) ==
    IF item \notin DOMAIN t.map THEN t
    ELSE LET container == t.map[item]
             index == IndexOf(t.nodes[container].items, item)
         IN IF index = 0 THEN t
            ELSE LET ns1 == [t.nodes EXCEPT ![container].items = Splice(@, index)]
                     t1 == [t EXCEPT !.nodes = ns1]
                 IN IF shouldCollapse(ns1, ns1[container].parent)
                    THEN collapseUp(t1, ns1[container].parent)
                    ELSE t1

\* Mutant of remove: no test for indexOf's -1; splice(-1, 1) drops the last item.
removeNoIndexTest(t, item) ==
    IF item \notin DOMAIN t.map THEN t
    ELSE LET container == t.map[item]
             its == t.nodes[container].items
             index == IF IndexOf(its, item) = 0 THEN Len(its) ELSE IndexOf(its, item)
             ns1 == [t.nodes EXCEPT ![container].items = Splice(@, index)]
             t1 == [t EXCEPT !.nodes = ns1]
         IN IF shouldCollapse(ns1, ns1[container].parent)
            THEN collapse(t1, ns1[container].parent)
            ELSE t1

remove(t, item) ==
    IF item \notin DOMAIN t.map THEN t
    ELSE LET container == t.map[item]
             index == IndexOf(t.nodes[container].items, item)
         IN IF index = 0 THEN t
            ELSE LET ns1 == [t.nodes EXCEPT ![container].items = Splice(@, index)]
                     t1 == [t EXCEPT !.nodes = ns1]
                 IN IF shouldCollapse(ns1, ns1[container].parent)
                    THEN collapse(t1, ns1[container].parent)
                    ELSE t1

\* ---------------------------------------------------------------- update
\* Mutant of update: only the x coordinate is tested against the bounds.
updateXOnly(t, item, gp) ==
    IF item \notin DOMAIN t.map THEN add(t, Root, item, gp)
    ELSE LET c == t.nodes[t.map[item]]
             x == gp[item][1]
         IN IF x >= c.min[1] /\ x < c.max[1]
            THEN t
            ELSE add(remove(t, item), Root, item, gp)

\* Mutant of update: the bounds test takes the upper bounds as inclusive.
updateClosedBounds(t, item, gp) ==
    IF item \notin DOMAIN t.map THEN add(t, Root, item, gp)
    ELSE LET container == t.nodes[t.map[item]]
             x == gp[item][1]
             y == gp[item][2]
         IN IF /\ x >= container.min[1] /\ x <= container.max[1]
               /\ y >= container.min[2] /\ y <= container.max[2]
            THEN t
            ELSE add(remove(t, item), Root, item, gp)

update(t, item, gp) ==
    IF item \notin DOMAIN t.map THEN add(t, Root, item, gp)
    ELSE LET container == t.nodes[t.map[item]]
             x == gp[item][1]
             y == gp[item][2]
         IN IF /\ x >= container.min[1] /\ x < container.max[1]
               /\ y >= container.min[2] /\ y < container.max[2]
            THEN t
            ELSE add(remove(t, item), Root, item, gp)

\* ------------------------------------------------------ [Symbol.iterator]
\* The stack loop: pop the last of remaining; push the children or yield items.
RECURSIVE IterLoop(_, _, _)
IterLoop(ns, remaining, out) ==
    IF remaining = <<>> THEN out
    ELSE LET current == remaining[Len(remaining)]
             rest == SubSeq(remaining, 1, Len(remaining) - 1)
         IN IF ns[current].children # <<>>
            THEN IterLoop(ns, rest \o ns[current].children, out)
            ELSE IterLoop(ns, rest, out \o ns[current].items)

Iterate(ns, n) == IterLoop(ns, <<n>>, <<>>)

\* ------------------------------------------------------------ iterateBox
\* Mutant of Overlaps: a child whose left edge touches the box is pruned.
OverlapsStrict(c, minX, minY, maxX, maxY) ==
    /\ minX <= c.max[1]
    /\ c.min[1] < maxX
    /\ maxY >= c.min[2]
    /\ c.max[2] >= minY

Overlaps(c, minX, minY, maxX, maxY) ==
    /\ minX <= c.max[1]
    /\ c.min[1] <= maxX
    /\ maxY >= c.min[2]
    /\ c.max[2] >= minY

InBox(p, minX, minY, maxX, maxY) ==
    minX <= p[1] /\ minY <= p[2] /\ maxX >= p[1] /\ maxY >= p[2]

RECURSIVE BoxLoop(_, _, _, _, _, _, _, _)
BoxLoop(ns, gp, cells, out, minX, minY, maxX, maxY) ==
    IF cells = <<>> THEN out
    ELSE LET cell == cells[Len(cells)]
             rest == SubSeq(cells, 1, Len(cells) - 1)
         IN IF ns[cell].children # <<>>
            THEN BoxLoop(ns, gp,
                     rest \o SelectSeq(ns[cell].children,
                                 LAMBDA c : Overlaps(ns[c], minX, minY, maxX, maxY)),
                     out, minX, minY, maxX, maxY)
            ELSE BoxLoop(ns, gp, rest,
                     out \o SelectSeq(ns[cell].items,
                                LAMBDA i : InBox(gp[i], minX, minY, maxX, maxY)),
                     minX, minY, maxX, maxY)

iterateBox(ns, gp, n, minX, minY, maxX, maxY) ==
    BoxLoop(ns, gp, <<n>>, <<>>, minX, minY, maxX, maxY)

box(ns, gp, n, minX, minY, maxX, maxY) == iterateBox(ns, gp, n, minX, minY, maxX, maxY)

\* --------------------------------------------------------- iterateRadius
DistSq(p, x, y) == (x - p[1]) * (x - p[1]) + (y - p[2]) * (y - p[2])

\* Mutant of iterateRadius: an item at distance exactly r is left out.
iterateRadiusStrict(ns, gp, n, x, y, r) ==
    SelectSeq(iterateBox(ns, gp, n, x - r, y - r, x + r, y + r),
              LAMBDA i : DistSq(gp[i], x, y) < r * r)

iterateRadius(ns, gp, n, x, y, r) ==
    SelectSeq(iterateBox(ns, gp, n, x - r, y - r, x + r, y + r),
              LAMBDA i : DistSq(gp[i], x, y) <= r * r)

radius(ns, gp, n, x, y, r) == iterateRadius(ns, gp, n, x, y, r)

\* ---------------------------------------------------------- iterateTrees
\* leaves = true: only the leaves below n, in the stack loop's order.
RECURSIVE TreesLoop(_, _, _)
TreesLoop(ns, remaining, out) ==
    IF remaining = <<>> THEN out
    ELSE LET current == remaining[Len(remaining)]
             rest == SubSeq(remaining, 1, Len(remaining) - 1)
         IN IF ns[current].children # <<>>
            THEN TreesLoop(ns, rest \o ns[current].children, out)
            ELSE TreesLoop(ns, rest, Append(out, current))

iterateTrees(ns, n) == TreesLoop(ns, <<n>>, <<>>)

\* -------------------------------------------------------- iterateNearest
\* Array.prototype.sort is stable: an item goes after the items no farther.
\* Mutant of SortByDist: the batch is left in the order the leaves gave it.
Unsorted(s, gp, x, y) == s

RECURSIVE SortByDist(_, _, _, _)
InsertByDist(sorted, item, gp, x, y) ==
    LET k == Cardinality({j \in 1..Len(sorted) :
                 DistSq(gp[sorted[j]], x, y) <= DistSq(gp[item], x, y)})
    IN SubSeq(sorted, 1, k) \o <<item>> \o SubSeq(sorted, k + 1, Len(sorted))
SortByDist(s, gp, x, y) ==
    IF s = <<>> THEN <<>>
    ELSE InsertByDist(SortByDist(SubSeq(s, 1, Len(s) - 1), gp, x, y),
                      s[Len(s)], gp, x, y)

\* cur.parent?.parent ?? cur.parent ?? cur
NearestStart(ns, leaf) ==
    LET p == ns[leaf].parent IN
    IF p = NoNode THEN leaf
    ELSE IF ns[p].parent = NoNode THEN p ELSE ns[p].parent

\* Mutant of Ring: the leaves already closed are not skipped.
RingAll(ns, gp, cur, closed, x, y) ==
    SortByDist(FlatItems(ns, iterateTrees(ns, cur)), gp, x, y)

\* One ring: the items of the leaves below cur that are not closed, sorted.
Ring(ns, gp, cur, closed, x, y) ==
    SortByDist(FlatItems(ns, SelectSeq(iterateTrees(ns, cur),
                                  LAMBDA tr : tr \notin closed)), gp, x, y)

RECURSIVE NearestLoop(_, _, _, _, _, _, _)
NearestLoop(ns, gp, cur, closed, x, y, out) ==
    IF cur = NoNode THEN out
    ELSE LET trees == iterateTrees(ns, cur)
         IN NearestLoop(ns, gp, ns[cur].parent,
                        closed \cup {trees[k] : k \in 1..Len(trees)}, x, y,
                        out \o Ring(ns, gp, cur, closed, x, y))

iterateNearest(ns, gp, n, x, y) ==
    NearestLoop(ns, gp, NearestStart(ns, drill(ns, n, x, y)), {}, x, y, <<>>)

\* Pull from the generator until count items are held or it is exhausted.
nearest(ns, gp, n, x, y, count) ==
    LET all == iterateNearest(ns, gp, n, x, y)
    IN SubSeq(all, 1, IF count < Len(all) THEN count ELSE Len(all))

\* ------------------------------------------------------ object lifetimes
\* Node identities are object references: a state is the heap up to renaming.
\* After every operation the heap is put in a normal form.  The nodes of the
\* tree are named in preorder from the root.  A node the tree has discarded
\* (a child of a collapsed node) is kept only while the reverse index still
\* refers to it, and of it only what can be read through the index: its
\* bounds, and those of its items the index maps to it.  Everything else is
\* garbage.
RECURSIVE Subtree(_, _)
Subtree(ns, n) ==
    {n} \cup (IF IsLeaf(ns, n) THEN {}
              ELSE UNION {Subtree(ns, ns[n].children[k]) : k \in 1..4})

RECURSIVE Preorder(_, _)
Preorder(ns, n) ==
    IF IsLeaf(ns, n) THEN <<n>>
    ELSE <<n>> \o Preorder(ns, ns[n].children[1]) \o Preorder(ns, ns[n].children[2])
              \o Preorder(ns, ns[n].children[3]) \o Preorder(ns, ns[n].children[4])

\* The discarded nodes the index refers to, by the least item referring to each.
RECURSIVE DiscardedFrom(_, _)
DiscardedFrom(t, i) ==
    IF i > NumItems THEN <<>>
    ELSE IF /\ i \in DOMAIN t.map
            /\ t.map[i] \notin Subtree(t.nodes, Root)
            /\ \A j \in 1..(i - 1) : j \in DOMAIN t.map => t.map[j] # t.map[i]
         THEN <<t.map[i]>> \o DiscardedFrom(t, i + 1)
         ELSE DiscardedFrom(t, i + 1)

Reachable(t) == Preorder(t.nodes, Root) \o DiscardedFrom(t, 1)

Rank(order, n) ==
    IF n = NoNode THEN NoNode ELSE CHOOSE k \in 1..Len(order) : order[k] = n

Collect(t) ==
    LET order == Reachable(t)
        inTree == Len(Preorder(t.nodes, Root))
    IN [nodes |-> [k \in 1..Len(order) |->
                     LET r == t.nodes[order[k]] IN
                     IF k <= inTree
                     THEN [r EXCEPT !.parent = Rank(order, @),
                                    !.children = [j \in 1..Len(@) |-> Rank(order, @[j])]]
                     ELSE [NewTree(NoNode, r.min, r.max) EXCEPT
                              !.items = SelectSeq(r.items,
                                  LAMBDA i : i \in DOMAIN t.map /\ t.map[i] = order[k])]],
        map |-> [i \in DOMAIN t.map |-> Rank(order, t.map[i])]]

\* ----------------------------------------------------------------- state
\* The stores as a method call finds them: an empty call stack, no error
\* propagating, on an engine whose position test needs probe more frames.
Call(ns, map, probe) ==
    [nodes |-> ns, map |-> map, depth |-> 0, threw |-> FALSE, probe |-> probe]
Cur == Call(nodes, itemToTreeMap, 0)

Init ==
    /\ density \in MinDensity..MaxDensity
    /\ thrash \in Thrashes
    /\ nodes = [n \in {Root} |-> NewTree(NoNode, <<0 - Infinity, 0 - Infinity>>,
                                         <<Infinity, Infinity>>)]
    /\ itemToTreeMap = <<>>
    /\ pos = <<>>
    /\ added = {}

Commit(t, gp) ==
    LET c == Collect(t) IN
    /\ nodes' = c.nodes
    /\ itemToTreeMap' = c.map
    /\ pos' = gp

\* The item is in an items array of the tree.
Stored(t, item) ==
    \E n \in Subtree(t.nodes, Root) : IndexOf(t.nodes[n].items, item) # 0

\* What a call leaves behind: the stores as the call, or the RangeError that
\* ended it, left them; the caller's record of an item the tree does not
\* store is dropped.
Return(t, item, gp) ==
    LET kept == Stored(t, item) IN
    /\ Commit(t, IF kept THEN gp ELSE [i \in DOMAIN gp \ {item} |-> gp[i]])
    /\ added' = IF kept THEN added \cup {item} ELSE added \ {item}

\* A call on any engine; the engines differ only when the stack runs out.
OnEngine(run, item, gp) ==
    LET t == run[0] IN
    IF ~t.threw THEN Return(t, item, gp)
    ELSE \E probe \in ProbeFrames : Return(run[probe], item, gp)

\* tree.add(item) for an item the tree does not hold, at position p.
Add(item, p) ==
    /\ item \notin added
    /\ LET gp == MapSet(pos, item, p)
           run == [probe \in ProbeFrames |->
                      add(Call(nodes, itemToTreeMap, probe), Root, item, gp)]
       IN OnEngine(run, item, gp)
    /\ UNCHANGED <<density, thrash>>

\* tree.remove(item), for any item.
Remove(item) ==
    /\ LET t == remove(Cur, item)
           gp == [i \in DOMAIN pos \ {item} |-> pos[i]]
       IN Commit(t, gp)
    /\ added' = added \ {item}
    /\ UNCHANGED <<density, thrash>>

\* The caller moves a stored item to p and calls tree.update(item).
Update(item, p) ==
    /\ item \in added
    /\ LET gp == MapSet(pos, item, p)
           run == [probe \in ProbeFrames |->
                      update(Call(nodes, itemToTreeMap, probe), item, gp)]
       IN OnEngine(run, item, gp)
    /\ UNCHANGED <<density, thrash>>

\* tree.update(item) for an item the tree does not hold, the item being at p.
\* The item counts as added when the call has stored it.
UpdateAbsent(item, p) ==
    /\ item \notin added
    /\ LET gp == MapSet(pos, item, p)
           run == [probe \in ProbeFrames |->
                      update(Call(nodes, itemToTreeMap, probe), item, gp)]
       IN OnEngine(run, item, gp)
    /\ UNCHANGED <<density, thrash>>

\* ------------------------------------------------- construction, modelled
\* The density argument: an integer, or the default when it is left out.
Requested == ((MinDensity - RejectSpan)..MaxDensity) \cup {DefaultDensity}

\* Mutant of constructor: the test is density < 1.
constructorLoose(d) ==
    IF d < 1 THEN [threw |-> TRUE, tree |-> <<>>]
    ELSE [threw |-> FALSE,
          tree |-> [n \in {Root} |-> NewTree(NoNode, <<0 - Infinity, 0 - Infinity>>,
                                              <<Infinity, Infinity>>)]]

\* new D2Tree({density: d}): throws, or is the root object.
constructor(d) ==
    IF d <= 1 THEN [threw |-> TRUE, tree |-> <<>>]
    ELSE [threw |-> FALSE,
          tree |-> [n \in {Root} |-> NewTree(NoNode, <<0 - Infinity, 0 - Infinity>>,
                                              <<Infinity, Infinity>>)]]

\* Before the constructor call: density holds the argument, there is no object.
InitNew ==
    /\ density \in Requested
    /\ thrash \in Thrashes
    /\ nodes = <<>>
    /\ itemToTreeMap = <<>>
    /\ pos = <<>>
    /\ added = {}

\* The constructor call.  When it throws there is no tree to operate on.
New ==
    /\ nodes = <<>>
    /\ LET c == constructor(density) IN
       IF c.threw THEN UNCHANGED nodes ELSE nodes' = c.tree
    /\ UNCHANGED <<itemToTreeMap, pos, density, thrash, added>>

Next ==
    \/ \E item \in Items, p \in Points : Add(item, p)
    \/ \E item \in Items : Remove(item)
    \/ \E item \in Items, p \in Points : Update(item, p)
    \/ \E item \in Items, p \in Points : UpdateAbsent(item, p)

Spec == Init /\ [][Next]_vars

\* The number of levels below the root.
RECURSIVE Height(_, _)
Height(ns, n) ==
    IF IsLeaf(ns, n) THEN 0
    ELSE 1 + CHOOSE h \in {Height(ns, ns[n].children[k]) : k \in 1..4} :
                 \A k \in 1..4 : Height(ns, ns[n].children[k]) <= h

\* The same calls on items whose positions are neighbouring doubles, followed
\* while the tree is at most MaxHeight levels deep.
Followed == Height(nodes, Root) <= MaxHeight

NextClose ==
    \/ \E item \in Items, p \in ClosePoints : Followed /\ Add(item, p)
    \/ \E item \in Items : Followed /\ Remove(item)
    \/ \E item \in Items, p \in ClosePoints : Followed /\ Update(item, p)
    \/ \E item \in Items, p \in ClosePoints : Followed /\ UpdateAbsent(item, p)

SpecClose == Init /\ [][NextClose]_vars

NextNew ==
    \/ New
    \/ nodes # <<>> /\ Next

SpecNew == InitNew /\ [][NextNew]_vars

\* ================================================================ claims
TreeNodes == Subtree(nodes, Root)
SeqSet(s) == {s[k] : k \in 1..Len(s)}
NoRepeat(s) == \A j, k \in 1..Len(s) : j # k => s[j] # s[k]
\* The nodes the tree has discarded that the reverse index still refers to.
DiscardedNodes == DOMAIN nodes \ TreeNodes
\* The items a subtree stores.
HeldBelow(n) == UNION {SeqSet(nodes[m].items) : m \in Subtree(nodes, n)}
RECURSIVE Depth(_)
Depth(n) == IF n = Root THEN 0 ELSE 1 + Depth(nodes[n].parent)
SameSpot(its) == \A j, k \in 1..Len(its) : pos[its[j]] = pos[its[k]]

\* C1: box(minX, minY, maxX, maxY) returns exactly the items added and not
\* removed whose position lies in the closed rectangle, each exactly once.
C1_BoxMatchesScan ==
    \A minX \in Coords, minY \in Coords, maxX \in Coords, maxY \in Coords :
        LET r == box(nodes, pos, Root, minX, minY, maxX, maxY) IN
        /\ NoRepeat(r)
        /\ SeqSet(r) = {i \in added : /\ minX <= pos[i][1] /\ pos[i][1] <= maxX
                                      /\ minY <= pos[i][2] /\ pos[i][2] <= maxY}

\* C1 witness: a box query on a split tree that prunes a child holding items,
\* returns an item, and a removed item is still in the reverse index.
C1_Witness ==
    /\ ~IsLeaf(nodes, Root)
    /\ DOMAIN itemToTreeMap \ added # {}
    /\ \E minX \in Coords, minY \in Coords, maxX \in Coords, maxY \in Coords :
        /\ box(nodes, pos, Root, minX, minY, maxX, maxY) # <<>>
        /\ \E k \in 1..4 :
              /\ ~Overlaps(nodes[nodes[Root].children[k]], minX, minY, maxX, maxY)
              /\ HeldBelow(nodes[Root].children[k]) # {}

\* C2: radius(x, y, r) returns exactly the items added and not removed whose
\* squared distance to (x, y) is at most r * r, each exactly once.
C2_RadiusMatchesScan ==
    \A x \in Coords, y \in Coords, r \in Radii :
        LET s == radius(nodes, pos, Root, x, y, r) IN
        /\ NoRepeat(s)
        /\ SeqSet(s) = {i \in added :
              (pos[i][1] - x) * (pos[i][1] - x) + (pos[i][2] - y) * (pos[i][2] - y)
                  <= r * r}

\* C2 witness: on a split tree a circle returns an item at distance exactly r
\* and leaves out an item of its bounding square, after a removal.
C2_Witness ==
    /\ ~IsLeaf(nodes, Root)
    /\ DOMAIN itemToTreeMap \ added # {}
    /\ \E x \in Coords, y \in Coords, r \in Radii \ {0} : \E i, j \in added :
        /\ DistSq(pos[i], x, y) = r * r
        /\ i \in SeqSet(radius(nodes, pos, Root, x, y, r))
        /\ InBox(pos[j], x - r, y - r, x + r, y + r)
        /\ j \notin SeqSet(radius(nodes, pos, Root, x, y, r))

\* C3: iterating the root yields exactly the items added and not removed
\* since, each exactly once.
C3_IterationIsTheSet ==
    LET s == Iterate(nodes, Root) IN NoRepeat(s) /\ SeqSet(s) = added

\* C3 witness: a tree that has split and has seen a collapse (a discarded
\* child is still referred to), holding two items or more.
C3_Witness ==
    /\ ~IsLeaf(nodes, Root)
    /\ DiscardedNodes # {}
    /\ Cardinality(added) >= 2
    /\ Len(Iterate(nodes, Root)) >= 2

\* C4 (as claimed): the whole sequence iterateNearest(x, y) yields is
\* non-decreasing in distance to (x, y), for every query point.
C4_NearestSorted ==
    \A x \in QueryCoords, y \in QueryCoords :
        LET s == iterateNearest(nodes, pos, Root, x, y) IN
        \A k \in 1..(Len(s) - 1) :
            DistSq(pos[s[k]], x, y) <= DistSq(pos[s[k + 1]], x, y)

C6_IndexSize ==
    /\ Cardinality(DOMAIN itemToTreeMap) = Len(Iterate(nodes, Root))
    /\ DOMAIN itemToTreeMap \subseteq added

\* C7: every item stored in a node of the tree is stored in a leaf, once, and
\* the reverse index maps it to that leaf.
C7_IndexPointsToLeaf ==
    \A n \in TreeNodes : \A k \in 1..Len(nodes[n].items) :
        LET i == nodes[n].items[k] IN
        /\ IsLeaf(nodes, n)
        /\ i \in DOMAIN itemToTreeMap
        /\ itemToTreeMap[i] = n
        /\ \A m \in TreeNodes : \A j \in 1..Len(nodes[m].items) :
              nodes[m].items[j] = i => (m = n /\ j = k)

\* C7 witness: items stored two levels down (re-pointed by a split of a
\* child) in a tree that has seen a collapse.
C7_Witness ==
    /\ DiscardedNodes # {}
    /\ \E n \in TreeNodes : Depth(n) >= 2 /\ nodes[n].items # <<>>
    /\ \E n \in TreeNodes : Depth(n) = 1 /\ nodes[n].items # <<>>

\* C8 (as claimed): no leaf holds density or more items unless all of its
\* items have the same position.
C8_LeafBelowDensity ==
    \A n \in TreeNodes :
        (IsLeaf(nodes, n) /\ Len(nodes[n].items) >= density)
            => SameSpot(nodes[n].items)

\* C8 (amended): when add(item), or an update that moves the item out of its
\* leaf's bounds, completes, the leaf that received the item holds at most
\* density items unless all of its items but the received one, which is its
\* last, have the same position.
ReceivedBy(i) ==
    \/ i \notin added /\ i \in added'
    \/ /\ i \in added /\ i \in added'
       /\ LET c == nodes[itemToTreeMap[i]] IN
          ~(/\ pos'[i][1] >= c.min[1] /\ pos'[i][1] < c.max[1]
            /\ pos'[i][2] >= c.min[2] /\ pos'[i][2] < c.max[2])
C8_ReceivingLeaf ==
    [][\A i \in Items : ReceivedBy(i) =>
          LET its == nodes'[itemToTreeMap'[i]].items IN
          /\ its[Len(its)] = i
          /\ \/ Len(its) <= density'
             \/ \A j, k \in 1..(Len(its) - 1) : pos'[its[j]] = pos'[its[k]]]_vars

\* C8 witness: a leaf holding more than density items, all but the last of
\* them at one position and the last elsewhere.
C8_Witness ==
    \E n \in TreeNodes :
        LET its == nodes[n].items IN
        /\ IsLeaf(nodes, n)
        /\ Len(its) > density
        /\ SameSpot(SubSeq(its, 1, Len(its) - 1))
        /\ pos[its[Len(its)]] # pos[its[1]]

\* C9: every node of the tree is a leaf, or has exactly 4 children and no
\* items; each child's parent link names the node that lists it.
C9_NodeShape ==
    \A n \in TreeNodes :
        \/ nodes[n].children = <<>>
        \/ /\ Len(nodes[n].children) = 4
           /\ nodes[n].items = <<>>
           /\ \A k \in 1..4 : nodes[nodes[n].children[k]].parent = n
           /\ \A j, k \in 1..4 :
                 j # k => nodes[n].children[j] # nodes[n].children[k]

\* C9 witness: a tree two levels deep, holding items at both levels.
C9_Witness ==
    /\ \E n \in TreeNodes : Depth(n) = 1 /\ ~IsLeaf(nodes, n)
    /\ \E n \in TreeNodes : Depth(n) = 2 /\ nodes[n].items # <<>>
    /\ \E n \in TreeNodes : Depth(n) = 1 /\ IsLeaf(nodes, n)

\* C10: remove(item) of a stored item collapses the parent P of the item's
\* leaf if and only if P exists, P's four children are leaves and (their item
\* count after the removal) * thrash < density; P then is a leaf holding the
\* children's remaining items in quadrant order.  Otherwise P keeps its
\* children, and the leaf only loses the item.
C10_CollapseIff ==
    [][\A i \in Items : (i \in added /\ i \notin added') =>
          LET c == itemToTreeMap[i]
              p == nodes[c].parent
              kids == IF p = NoNode THEN <<>> ELSE nodes[p].children
              rest == SelectSeq(FlatItems(nodes, kids), LAMBDA j : j # i)
              eligible == /\ p # NoNode
                          /\ \A k \in 1..4 : nodes[kids[k]].children = <<>>
                          /\ Len(rest) * thrash[1] < density * thrash[2]
          IN IF eligible
             THEN nodes'[p].children = <<>> /\ nodes'[p].items = rest
             ELSE /\ TreeNodes \subseteq DOMAIN nodes'
                  /\ nodes'[c].items = SelectSeq(nodes[c].items, LAMBDA j : j # i)
                  /\ \A n \in TreeNodes : nodes'[n].children = nodes[n].children]_vars

\* C10 witness: a removed item whose leaf was discarded by the collapse, and
\* the leaf that now covers its bounds holds two items merged from siblings.
C10_Witness ==
    \E i \in DOMAIN itemToTreeMap \ added :
        /\ itemToTreeMap[i] \in DiscardedNodes
        /\ \E n \in TreeNodes :
              /\ IsLeaf(nodes, n)
              /\ Len(nodes[n].items) = 2
              /\ pos[nodes[n].items[1]] # pos[nodes[n].items[2]]
              /\ nodes[n].min[1] <= nodes[itemToTreeMap[i]].min[1]
              /\ nodes[n].min[2] <= nodes[itemToTreeMap[i]].min[2]
              /\ nodes[itemToTreeMap[i]].max[1] <= nodes[n].max[1]
              /\ nodes[itemToTreeMap[i]].max[2] <= nodes[n].max[2]

\* The child index (1..4 for children 0..3) the quadrant rule gives a position.
Quadrant(c, q) ==
    IF q[1] < c[1] THEN (IF q[2] < c[2] THEN 1 ELSE 2)
    ELSE (IF q[2] < c[2] THEN 3 ELSE 4)

\* C11: add(item) splits the leaf it drills to if and only if that leaf holds
\* density or more items not all at one position; the leaf then is internal,
\* its centre is the mean of its prior items' positions, and every prior item
\* and the new one is stored in a leaf below the child the quadrant rule gives
\* it; otherwise the item is appended to the leaf's items.
C11_AddSplitsIff ==
    [][\A i \in Items : (i \notin added /\ i \in added') =>
          LET cell == drill(nodes, Root, pos'[i][1], pos'[i][2])
              its == nodes[cell].items
              mustSplit == /\ Len(its) >= density
                           /\ \E j, k \in 1..Len(its) : pos[its[j]] # pos[its[k]]
          IN IF mustSplit
             THEN /\ Len(nodes'[cell].children) = 4
                  /\ nodes'[cell].items = <<>>
                  /\ nodes'[cell].center[1] * Len(its)
                         = SumSeq([k \in 1..Len(its) |-> pos[its[k]][1]])
                  /\ nodes'[cell].center[2] * Len(its)
                         = SumSeq([k \in 1..Len(its) |-> pos[its[k]][2]])
                  /\ \A j \in SeqSet(its) \cup {i} :
                        LET leaf == itemToTreeMap'[j]
                            kid == nodes'[cell].children[
                                       Quadrant(nodes'[cell].center, pos'[j])]
                        IN /\ leaf \in Subtree(nodes', kid)
                           /\ nodes'[leaf].children = <<>>
                           /\ j \in SeqSet(nodes'[leaf].items)
             ELSE /\ nodes'[cell].children = <<>>
                  /\ nodes'[cell].items = Append(its, i)
                  /\ itemToTreeMap'[i] = cell]_vars

\* C11 witness: an add has just split a leaf below the root: a child of the
\* root is internal, and one of its items sits on a centre line (a tie).
C11_Witness ==
    /\ Cardinality(added) = NumItems
    /\ \E n \in TreeNodes \ {Root} :
          /\ ~IsLeaf(nodes, n)
          /\ \E i \in HeldBelow(n) :
                pos[i][1] = nodes[n].center[1] \/ pos[i][2] = nodes[n].center[2]

\* A position lies in a node's half-open bounds [min, max).
Within(n, q) ==
    /\ n.min[1] <= q[1] /\ q[1] < n.max[1]
    /\ n.min[2] <= q[2] /\ q[2] < n.max[2]

\* C12: update(item) of a stored item whose new position lies in its leaf's
\* half-open bounds changes neither the tree nor the reverse index; when the
\* position lies outside them the tree stores the same items as before, each
\* once, the item is no longer in its old leaf, and it is stored once, in the
\* leaf that contains its new position.
C12_UpdateFrame ==
    [][\A i \in Items : (i \in added /\ i \in added' /\ pos'[i] # pos[i]) =>
          LET old == itemToTreeMap[i] IN
          IF Within(nodes[old], pos'[i])
          THEN nodes' = nodes /\ itemToTreeMap' = itemToTreeMap
          ELSE /\ Len(Iterate(nodes', Root)) = Len(Iterate(nodes, Root))
               /\ SeqSet(Iterate(nodes', Root)) = SeqSet(Iterate(nodes, Root))
               /\ LET leaf == itemToTreeMap'[i] IN
                  /\ leaf \in Subtree(nodes', Root)
                  /\ nodes'[leaf].children = <<>>
                  /\ Within(nodes'[leaf], pos'[i])
                  /\ ~Within(nodes'[leaf], pos[i]) \/ nodes'[leaf].min # nodes[old].min
                         \/ nodes'[leaf].max # nodes[old].max
                  /\ Cardinality({k \in 1..Len(nodes'[leaf].items) :
                                     nodes'[leaf].items[k] = i}) = 1
                  /\ \A m \in Subtree(nodes', Root) \ {leaf} :
                        i \notin SeqSet(nodes'[m].items)]_vars

\* C12 witness: a leaf only an update within bounds produces: with thrash
\* above 1 it holds more than density items, the first two at different
\* positions (add would have split it), below a root that has split (an
\* update out of bounds re-adds below the root).
C12_Witness ==
    /\ thrash[1] > thrash[2]
    /\ ~IsLeaf(nodes, Root)
    /\ \E n \in TreeNodes :
          /\ IsLeaf(nodes, n)
          /\ Len(nodes[n].items) > density
          /\ pos[nodes[n].items[1]] # pos[nodes[n].items[2]]

\* C13 (as claimed): update(item) of an item the tree does not store, never
\* added or added and then removed, stores it once in the leaf containing its
\* position.
C13_UpdateAbsentAdds ==
    \A i \in Items \ added : \A p \in Points :
        LET gp == MapSet(pos, i, p)
            t == update(Cur, i, gp)
        IN /\ i \in DOMAIN t.map
           /\ t.map[i] = drill(t.nodes, Root, p[1], p[2])
           /\ Cardinality({k \in 1..Len(t.nodes[t.map[i]].items) :
                              t.nodes[t.map[i]].items[k] = i}) = 1

\* C14: remove(item) of an item the tree does not store (never added, or
\* removed, its former leaf still in the tree or discarded by a collapse)
\* changes neither the tree nor the reverse index.
C14_RemoveAbsentNoOp ==
    \A i \in Items \ added : remove(Cur, i) = Cur

\* C14 witness: the tree stores an item, and a removed item's index entry
\* refers to a leaf a collapse has discarded.
C14_Witness ==
    /\ added # {}
    /\ \E i \in DOMAIN itemToTreeMap \ added : itemToTreeMap[i] \in DiscardedNodes

\* C15: adding an item to a leaf whose items all are at the item's position
\* never splits the leaf, however many it holds: items inserted at one
\* position stay in a single leaf, beyond density.
C15_CoincidentNeverSplit ==
    [][\A i \in Items : (i \notin added /\ i \in added') =>
          LET cell == drill(nodes, Root, pos'[i][1], pos'[i][2])
              its == nodes[cell].items
          IN (\A k \in 1..Len(its) : pos[its[k]] = pos'[i]) =>
                /\ nodes'[cell].children = <<>>
                /\ nodes'[cell].items = Append(its, i)
                /\ Subtree(nodes', Root) = Subtree(nodes, Root)]_vars

\* C15 witness: density below NumItems, and the root a single leaf holding
\* NumItems items at one position.
C15_Witness ==
    /\ density < NumItems
    /\ IsLeaf(nodes, Root)
    /\ Len(nodes[Root].items) = NumItems
    /\ SameSpot(nodes[Root].items)

\* C16: constructing a tree throws exactly when density < 2; a tree exists
\* only for a density of 2 or more, and a construction that threw left none.
C16_ConstructorRejects ==
    /\ constructor(density).threw <=> density < 2
    /\ constructor(density).threw => nodes = <<>>
    /\ nodes # <<>> => density >= 2

\* C16 witness: a tree constructed with density 2, in use.
C16_Witness ==
    /\ density = 2
    /\ nodes # <<>>
    /\ added # {}

\* The stores after the step, for applying a further operation to them.
CurNext == Call(nodes', itemToTreeMap', 0)

\* C17: with thrash >= 1, a remove issued directly after the add that split
\* node P does not collapse P, and an add issued directly after the remove
\* that collapsed node P does not split P.
C17_Hysteresis ==
    [][thrash[1] >= thrash[2] =>
        /\ \A i \in Items : (i \notin added /\ i \in added') =>
              LET P == drill(nodes, Root, pos'[i][1], pos'[i][2]) IN
              nodes'[P].children # <<>> =>
                  \A j \in added' : remove(CurNext, j).nodes[P].children # <<>>
        /\ \A j \in Items : (j \in added /\ j \notin added') =>
              LET P == nodes[itemToTreeMap[j]].parent IN
              (P # NoNode /\ nodes'[P].children = <<>>) =>
                  \A i \in Items \ added' : \A p \in Points :
                      add(CurNext, Root, i, MapSet(pos', i, p)).nodes[P].children
                          = <<>>]_vars

\* C17 witness: thrash >= 1 and a leaf just split at the boundary: the root's
\* four children are leaves holding density + 1 items, so that one removal
\* leaves density items below the root.
C17_Witness ==
    /\ thrash[1] >= thrash[2]
    /\ ~IsLeaf(nodes, Root)
    /\ \A k \in 1..4 : IsLeaf(nodes, nodes[Root].children[k])
    /\ Cardinality(added) = density + 1

\* The internal nodes of a tree.
Internal(ns) == {n \in Subtree(ns, Root) : ns[n].children # <<>>}

\* C18: one remove call collapses at most one node, the parent of the removed
\* item's leaf: every other internal node, the grandparent included, is still
\* internal afterwards, even when it has become eligible for a collapse.
C18_SingleCollapse ==
    [][\A i \in Items : (i \in added /\ i \notin added') =>
          LET P == nodes[itemToTreeMap[i]].parent IN
          /\ Cardinality(Internal(nodes')) >= Cardinality(Internal(nodes)) - 1
          /\ \A n \in Internal(nodes) \ {P} :
                \E m \in Internal(nodes') :
                    nodes'[m].min = nodes[n].min /\ nodes'[m].max = nodes[n].max]_vars

\* C18 witness: the state a collapse without cascade leaves: the root is
\* internal although its four children are leaves and their item count times
\* thrash is below density.
C18_Witness ==
    /\ ~IsLeaf(nodes, Root)
    /\ shouldCollapse(nodes, Root)
    /\ DiscardedNodes # {}

\* The scopes of one iterateNearest call: n, then each ancestor up to the root.
RECURSIVE Scopes(_)
Scopes(n) == IF n = NoNode THEN <<>> ELSE <<n>> \o Scopes(nodes[n].parent)
\* The leaves below a node.
LeavesBelow(n) == {m \in Subtree(nodes, n) : IsLeaf(nodes, m)}
\* The ring of the k-th scope: the leaves below the earlier scopes are closed.
RingOf(sc, k, x, y) ==
    Ring(nodes, pos, sc[k], UNION {LeavesBelow(sc[j]) : j \in 1..(k - 1)}, x, y)
RECURSIVE ConcatRings(_, _, _, _)
ConcatRings(sc, k, x, y) ==
    IF k > Len(sc) THEN <<>> ELSE RingOf(sc, k, x, y) \o ConcatRings(sc, k + 1, x, y)

\* C19: one iterateNearest(x, y) call yields its rings one after the other,
\* the scopes being the query leaf's grandparent (else parent, else the leaf)
\* and then each ancestor up to the root; each ring is non-decreasing in
\* distance to (x, y) and holds exactly the items of the leaves below its
\* scope and below no earlier scope, so no leaf gives items to two rings.
C19_RingsSorted ==
    \A x \in QueryCoords, y \in QueryCoords :
        LET leaf == drill(nodes, Root, x, y)
            p == nodes[leaf].parent
            g == IF p = NoNode THEN NoNode ELSE nodes[p].parent
            sc == Scopes(IF g # NoNode THEN g ELSE IF p # NoNode THEN p ELSE leaf)
        IN /\ iterateNearest(nodes, pos, Root, x, y) = ConcatRings(sc, 1, x, y)
           /\ \A k \in 1..Len(sc) :
                 LET r == RingOf(sc, k, x, y) IN
                 /\ \A j \in 1..(Len(r) - 1) :
                       DistSq(pos[r[j]], x, y) <= DistSq(pos[r[j + 1]], x, y)
                 /\ SeqSet(r) = UNION {SeqSet(nodes[m].items) :
                        m \in LeavesBelow(sc[k]) \
                                 UNION {LeavesBelow(sc[j]) : j \in 1..(k - 1)}}
                 /\ \A j \in 1..(k - 1) :
                       SeqSet(r) \cap SeqSet(RingOf(sc, j, x, y)) = {}

\* C19 witness: a query with two non-empty rings, the first holding two items
\* that the sort has put in another order than the leaves gave them.
C19_Witness ==
    \E x \in QueryCoords, y \in QueryCoords :
        LET start == NearestStart(nodes, drill(nodes, Root, x, y))
            first == Ring(nodes, pos, start, {}, x, y)
        IN /\ start # Root
           /\ Len(first) = 2
           /\ first # FlatItems(nodes, iterateTrees(nodes, start))
           /\ Len(iterateNearest(nodes, pos, Root, x, y)) = 3

\* Probe coordinates for a node: the query grid, and its centre's neighbourhood.
Probes(c) == QueryCoords \cup {c - 1, c, c + 1}

\* C20: the root's bounds are the whole plane; the four children of every
\* internal node have the half-open bounds that cut the node's bounds at its
\* centre, so that every point of the node's bounds lies in exactly one
\* child's bounds, and drill sends the point into that child.
C20_BoundsPartition ==
    /\ nodes[Root].min = <<0 - Infinity, 0 - Infinity>>
    /\ nodes[Root].max = <<Infinity, Infinity>>
    /\ \A n \in Internal(nodes) :
          LET me == nodes[n]
              kid(k) == nodes[me.children[k]]
          IN /\ kid(1).min = me.min /\ kid(1).max = me.center
             /\ kid(2).min = <<me.min[1], me.center[2]>>
             /\ kid(2).max = <<me.center[1], me.max[2]>>
             /\ kid(3).min = <<me.center[1], me.min[2]>>
             /\ kid(3).max = <<me.max[1], me.center[2]>>
             /\ kid(4).min = me.center /\ kid(4).max = me.max
             /\ \A qx \in Probes(me.center[1]), qy \in Probes(me.center[2]) :
                   Within(me, <<qx, qy>>) =>
                     /\ Cardinality({k \in 1..4 : Within(kid(k), <<qx, qy>>)}) = 1
                     /\ \A k \in 1..4 :
                           Within(kid(k), <<qx, qy>>) =>
                               drill(nodes, n, qx, qy)
                                   \in Subtree(nodes, me.children[k])

\* C20 witness: a tree two levels deep with a leaf bounded on all four sides.
C20_Witness ==
    \E n \in TreeNodes :
        /\ Depth(n) = 2
        /\ nodes[n].min[1] > 0 - Infinity /\ nodes[n].min[2] > 0 - Infinity
        /\ nodes[n].max[1] < Infinity /\ nodes[n].max[2] < Infinity
        /\ nodes[n].min[1] < nodes[n].max[1] /\ nodes[n].min[2] < nodes[n].max[2]

\* C21: every item stored in a leaf of the tree has its current position in
\* that leaf's half-open bounds [min.x, max.x) x [min.y, max.y), after any
\* sequence of add, remove and update calls in which update follows every
\* change of position.
C21_ItemsInLeafBounds ==
    \A n \in TreeNodes :
        IsLeaf(nodes, n) =>
            \A k \in 1..Len(nodes[n].items) :
                /\ nodes[n].items[k] \in DOMAIN pos
                /\ Within(nodes[n], pos[nodes[n].items[k]])

\* C21 witness: every item is stored, one of them in a leaf two levels deep,
\* and another leaf holds two items at different positions.
C21_Witness ==
    /\ Cardinality(added) = NumItems
    /\ \E n \in TreeNodes :
          /\ Depth(n) = 2 /\ IsLeaf(nodes, n) /\ nodes[n].items # <<>>
    /\ \E n \in TreeNodes :
          /\ IsLeaf(nodes, n) /\ Len(nodes[n].items) = 2
          /\ ~SameSpot(nodes[n].items)

\* The items a tree stores at or below a node.
ItemsBelow(ns, n) ==
    UNION {SeqSet(ns[m].items) : m \in {l \in Subtree(ns, n) : IsLeaf(ns, l)}}

\* C22: every add call terminates: a split places the splitting leaf's items
\* in at least two different children, so that every child receives strictly
\* fewer items than the leaf held, and add, for an item at any position,
\* returns without exhausting the call stack.
C22_AddTerminates ==
    /\ \A n \in TreeNodes :
          (IsLeaf(nodes, n) /\ shouldSplit(nodes, n, pos)) =>
              LET t == split(Cur, n, pos)
                  held(k) == ItemsBelow(t.nodes, t.nodes[n].children[k])
              IN /\ ~t.threw
                 /\ Cardinality({k \in 1..4 : held(k) # {}}) >= 2
                 /\ \A k \in 1..4 :
                       Cardinality(held(k)) < Len(nodes[n].items)
    /\ \A i \in Items \ added, p \in Points \cup ClosePoints :
          ~add(Cur, Root, i, MapSet(pos, i, p)).threw

====
